---- MODULE Spec2Model ----
(***************************************************************************)
(* SubgraphInstance (core/src/subgraph/instance.rs): construction of the   *)
(* ordered host collection from a manifest, the instance-level log         *)
(* predicate, and the dispatch of one trigger through the matching hosts   *)
(* as a chain of futures.                                                  *)
(*                                                                         *)
(* The host builder, the hosts and the block context are collaborators of  *)
(* the instance.  Their answers are chosen by the environment at the call  *)
(* and remembered (interest, steps), so that a host asked the same         *)
(* question twice answers the same.                                        *)
(***************************************************************************)
EXTENDS Integers, Sequences, FiniteSets, TLC

\* Longest manifest (number of data sources).
MaxDS == 3
\* Longest mutation list handed to a dispatch.
MaxInputLen == 1

DataSources == 1..MaxDS
Ops == {"opA", "opB"}
HostErrors == {"E1", "E2"}
BuildErrors == {"bad abi", "bad mapping"}
Logs == {"L"}
Calls == {"C"}
BlockCalls == {"B"}

VARIABLES
    manifest,      \* the SubgraphManifest's data_sources handed to from_manifest
    buildCalls,    \* data sources host_builder.build was called with, in call order
    buildResults,  \* what each of those calls returned
    result,        \* what from_manifest returned: Pending before the call
    interest,      \* answers the hosts' predicates have given so far
    steps,         \* results the hosts' processing operations have given so far
    matched,       \* the calls of matches_log made so far and what they returned
    disp           \* the futures process_trigger has returned, by dispatch

vars == <<manifest, buildCalls, buildResults, result, interest, steps, matched, disp>>

----------------------------------------------------------------------------
\* Result<T, E> and Option<T>

Ok(v) == [tag |-> "Ok", val |-> v]
Err(e) == [tag |-> "Err", err |-> e]
Pending == [tag |-> "Pending"]
is_ok(r) == r.tag = "Ok"
is_err(r) == r.tag = "Err"
unwrap(r) == r.val
unwrap_err(r) == r.err
None == <<>>
Some(x) == <<x>>

Range(s) == {s[i] : i \in DOMAIN s}

\* An error carries its description; to_string yields it. A string is the
\* sequence of its pieces.
Error(str) == [msg |-> str]
to_string(e) == e.msg

\* Faulty variant: only the first description is reported.
join_first(strs, sep) == strs[1]

RECURSIVE join(_, _)
join(strs, sep) ==
    IF strs = <<>> THEN <<>>
    ELSE IF Len(strs) = 1 THEN strs[1]
    ELSE strs[1] \o sep \o join(Tail(strs), sep)

format_err(prefix, arg) == Error(prefix \o arg)

----------------------------------------------------------------------------
\* from_manifest

\* The manifests from_manifest is given: up to MaxDS distinct data sources,
\* listed by ascending or by descending name.
Manifests ==
    {[i \in 1..n |-> i] : n \in 0..MaxDS}
    \cup {[i \in 1..n |-> MaxDS + 1 - i] : n \in 0..MaxDS}

BuildOutcomes == {Ok("host")} \cup {Err(Error(<<e>>)) : e \in BuildErrors}

\* host_builder.build(&logger, manifest_id, d): the j-th call, answering o.
build(j, d, o) == IF is_ok(o) THEN Ok([ds |-> d, build |-> j]) ELSE o

RECURSIVE Reverse(_)
Reverse(s) == IF s = <<>> THEN <<>> ELSE Append(Reverse(Tail(s)), Head(s))

\* Faulty variant: each result is pushed to the front of its collection.
partition_rev(rs) == <<Reverse(SelectSeq(rs, is_ok)), Reverse(SelectSeq(rs, is_err))>>

partition(rs) == <<SelectSeq(rs, is_ok), SelectSeq(rs, is_err)>>

\* Faulty variant: the hosts that were built are kept whatever failed.
from_manifest_partial(rs) ==
    Ok([hosts |-> [i \in DOMAIN partition(rs)[1] |-> unwrap(partition(rs)[1][i])]])

from_manifest(rs) ==
    LET hosts == partition(rs)[1]
        errors == partition(rs)[2]
    IN  IF errors # <<>>
        THEN LET joined_errors ==
                     join([i \in DOMAIN errors |-> to_string(unwrap_err(errors[i]))],
                          <<", ">>)
             IN  Err(format_err(<<"Errors loading data sources: ">>, joined_errors))
        ELSE Ok([hosts |-> [i \in DOMAIN hosts |-> unwrap(hosts[i])]])

\* Faulty variant: the builds stop at the first that fails.
map_build_fail_fast(ds, outs) ==
    LET stop == IF \E j \in DOMAIN ds : is_err(outs[j])
                THEN CHOOSE j \in DOMAIN ds :
                        is_err(outs[j]) /\ \A i \in 1..(j - 1) : is_ok(outs[i])
                ELSE Len(ds)
    IN  [j \in 1..stop |-> build(j, ds[j], outs[j])]

\* manifest.data_sources.into_iter().map(|d| host_builder.build(..)), driven
\* to its end by partition: the results of the builds made, in call order,
\* outs being what the builder answers.
map_build(ds, outs) == [j \in 1..Len(ds) |-> build(j, ds[j], outs[j])]

FromManifest ==
    /\ result = Pending
    /\ \E outs \in [1..Len(manifest) -> BuildOutcomes] :
         LET rs == map_build(manifest, outs)
         IN  /\ buildCalls' = [j \in DOMAIN rs |-> manifest[j]]
             /\ buildResults' = rs
             /\ result' = from_manifest(rs)
    /\ UNCHANGED <<manifest, interest, steps, matched, disp>>

\* self.hosts of the instance from_manifest returned
Hosts == IF is_ok(result) THEN result.val.hosts ELSE <<>>

----------------------------------------------------------------------------
\* The hosts' predicates

Triggers ==
    {[kind |-> "Log", payload |-> l] : l \in Logs}
    \cup {[kind |-> "Call", payload |-> c] : c \in Calls}
    \cup {[kind |-> "Block", payload |-> b] : b \in BlockCalls}

Blocks == [Logs \cup Calls -> {None, Some("tx1")}]

\* host.matches_log(&log), host.matches_call(&call),
\* host.matches_block(&block, &call): what the predicate is asked.
PredKey(h, trigger, block) ==
    [host |-> h, trigger |-> trigger,
     block |-> IF trigger.kind = "Block" THEN Some(block) ELSE None]

\* The answers m the hosts hs may give for a trigger: any, but the ones given
\* before.
Answers(hs, trigger, block) ==
    {m \in [Range(hs) -> BOOLEAN] :
        \A h \in Range(hs) :
            PredKey(h, trigger, block) \in DOMAIN interest
                => m[h] = interest[PredKey(h, trigger, block)]}

Remember(evaluated, trigger, block, m) ==
    LET new == {h \in Range(evaluated) : PredKey(h, trigger, block) \notin DOMAIN interest}
    IN  interest @@ [k \in {PredKey(h, trigger, block) : h \in new} |-> m[k.host]]

\* self.hosts.iter().any(|host| host.matches_log(log)): the hosts asked, in
\* order, up to the first that answers true.
RECURSIVE any_asked(_, _)
any_asked(hs, m) ==
    IF hs = <<>> THEN <<>>
    ELSE IF m[Head(hs)] THEN <<Head(hs)>>
    ELSE <<Head(hs)>> \o any_asked(Tail(hs), m)

\* Faulty variant: only the first host is asked.
matches_log_first(hs, m) == hs # <<>> /\ m[Head(hs)]

matches_log(hs, m) == \E i \in DOMAIN any_asked(hs, m) : m[any_asked(hs, m)[i]]

MatchesLog ==
    /\ is_ok(result)
    /\ \E log \in Logs :
         LET trigger == [kind |-> "Log", payload |-> log] IN
         \E m \in Answers(Hosts, trigger, None) :
            /\ matched' = matched \cup
                   {[log |-> log, asked |-> any_asked(Hosts, m),
                     returned |-> matches_log(Hosts, m)]}
            /\ interest' = Remember(any_asked(Hosts, m), trigger, None, m)
    /\ UNCHANGED <<manifest, buildCalls, buildResults, result, steps, disp>>

----------------------------------------------------------------------------
\* process_trigger

InputLists == UNION {[1..n -> Ops] : n \in 0..MaxInputLen}

\* Faulty variant: the Option of the lookup is passed on unchecked.
transaction_unchecked(block, trigger) ==
    IF trigger.kind \in {"Log", "Call"} THEN Ok(block[trigger.payload]) ELSE Ok(None)

\* Faulty variant: a Block trigger looks up the transaction of its call.
transaction_for_block(block, trigger) ==
    LET key == IF trigger.kind = "Log" THEN trigger.payload
               ELSE CHOOSE c \in Calls : trigger.kind = "Block" \/ c = trigger.payload
    IN  IF block[key] = None
        THEN Err(Error(<<"Found no transaction for call">>))
        ELSE Ok(IF trigger.kind = "Block" THEN None ELSE block[key])

\* block.transaction_for_log(&log) / block.transaction_for_call(&call),
\* .map(Arc::new).ok_or_else(..). A Block trigger looks nothing up.
transaction(block, trigger) ==
    IF trigger.kind = "Log"
    THEN IF block[trigger.payload] = None
         THEN Err(Error(<<"Found no transaction for log">>))
         ELSE Ok(block[trigger.payload])
    ELSE IF trigger.kind = "Call"
    THEN IF block[trigger.payload] = None
         THEN Err(Error(<<"Found no transaction for call">>))
         ELSE Ok(block[trigger.payload])
    ELSE Ok(None)

\* Faulty variant: the hosts are not filtered.
matching_hosts_all(hs, m) == hs

\* Faulty variant: the hosts are kept in a collection whose iteration order
\* differs from one dispatch to the next.
matching_hosts_unordered(hs, m) ==
    IF DOMAIN disp = {} THEN SelectSeq(hs, LAMBDA h : m[h])
    ELSE Reverse(SelectSeq(hs, LAMBDA h : m[h]))

\* self.hosts.iter().filter(|host| host.matches_x(..)).cloned().collect()
matching_hosts(hs, m) == SelectSeq(hs, LAMBDA h : m[h])

process_op(trigger) ==
    IF trigger.kind = "Log" THEN "process_log"
    ELSE IF trigger.kind = "Call" THEN "process_call"
    ELSE "process_block"

\* Faulty variant: the hosts are asked only once the transaction is found.
process_trigger_lazy(hs, block, trigger, entity_operations, m) ==
    LET found == is_ok(transaction(block, trigger)) IN
    [trigger |-> trigger,
     block |-> block,
     input |-> entity_operations,
     transaction |-> transaction(block, trigger),
     asked |-> IF found THEN hs ELSE <<>>,
     answers |-> m,
     matching_hosts |-> IF found THEN matching_hosts(hs, m) ELSE <<>>,
     calls |-> <<>>,
     returns |-> <<>>,
     outcome |-> Pending]

\* The future process_trigger returns; nothing of it has run yet.
process_trigger(hs, block, trigger, entity_operations, m) ==
    [trigger |-> trigger,
     block |-> block,
     input |-> entity_operations,
     transaction |-> transaction(block, trigger),
     asked |-> hs,
     answers |-> m,
     matching_hosts |-> matching_hosts(hs, m),
     calls |-> <<>>,
     returns |-> <<>>,
     outcome |-> Pending]

\* Faulty variant: the matching hosts are moved out of the instance.
hosts_drained(hs, m) == SelectSeq(hs, LAMBDA h : ~m[h])

\* self.hosts after self.hosts.iter().filter(..).cloned().collect(): iter()
\* borrows the hosts of &self and cloned() copies the references.
hosts_borrowed(hs, m) == hs

\* process_trigger(logger, block, trigger, entity_operations) called; its
\* future is kept as dispatch d.
Dispatch(d, block, trigger, entity_operations) ==
    /\ is_ok(result)
    /\ d \notin DOMAIN disp
    /\ \E m \in Answers(Hosts, trigger, block) :
          /\ disp' = disp @@
                 (d :> process_trigger(Hosts, block, trigger, entity_operations, m))
          /\ interest' = Remember(Hosts, trigger, block, m)
          /\ result' = [result EXCEPT !.val.hosts = hosts_borrowed(Hosts, m)]
    /\ UNCHANGED <<manifest, buildCalls, buildResults, steps, matched>>

ProcessTrigger(d) ==
    \E block \in Blocks, trigger \in Triggers, entity_operations \in InputLists :
        Dispatch(d, block, trigger, entity_operations)

\* Faulty variant: the block is moved into the first call, the hosts after it
\* are given an empty one.
invoke_moved(f, host, entity_operations) ==
    [host |-> host,
     op |-> process_op(f.trigger),
     block |-> IF f.calls = <<>> THEN f.block ELSE [p \in DOMAIN f.block |-> None],
     transaction |-> unwrap(f.transaction),
     payload |-> f.trigger.payload,
     entity_operations |-> entity_operations]

\* host.process_log(logger, block, transaction, log, entity_operations) and
\* its Call and Block forms: the call as the host sees it.
invoke(f, host, entity_operations) ==
    [host |-> host,
     op |-> process_op(f.trigger),
     block |-> f.block,
     transaction |-> unwrap(f.transaction),
     payload |-> f.trigger.payload,
     entity_operations |-> entity_operations]

\* Faulty variant: the hosts are filtered lazily, each asked when the fold
\* reaches it.
fold_calls_lazy(f, entity_operations) ==
    LET last == IF f.calls = <<>> THEN 0
                ELSE CHOOSE i \in DOMAIN f.asked : f.asked[i] = f.calls[Len(f.calls)].host
        later == {i \in DOMAIN f.asked :
                    i > last /\ interest[PredKey(f.asked[i], f.trigger, f.block)]}
    IN  IF later # {}
        THEN <<invoke(f, f.asked[CHOOSE i \in later : \A j \in later : i <= j],
                      entity_operations)>>
        ELSE <<>>

\* Faulty variant: the accumulator is a field shared by the dispatches of the
\* instance: a host is given the list returned last in another dispatch.
fold_calls_shared(f, entity_operations) ==
    LET others == {g \in Range(disp) :
                      /\ g # f
                      /\ g.returns # <<>>
                      /\ is_ok(g.returns[Len(g.returns)])}
        shared == IF others = {} THEN entity_operations
                  ELSE LET g == CHOOSE g \in others : TRUE
                       IN  unwrap(g.returns[Len(g.returns)])
    IN  IF Len(f.calls) < Len(f.matching_hosts)
        THEN <<invoke(f, f.matching_hosts[Len(f.calls) + 1], shared)>>
        ELSE <<>>

\* Faulty variant: every host is given the input list of the dispatch.
fold_calls_stale(f, entity_operations) ==
    IF Len(f.calls) < Len(f.matching_hosts)
    THEN <<invoke(f, f.matching_hosts[Len(f.calls) + 1], f.input)>>
    ELSE <<>>

\* Faulty variant: the hosts still to run are all started at once.
fold_calls_parallel(f, entity_operations) ==
    [a \in 1..(Len(f.matching_hosts) - Len(f.calls)) |->
        invoke(f, f.matching_hosts[Len(f.calls) + a], entity_operations)]

\* The calls the fold makes when it holds the accumulator: the next host of
\* the stream, if there is one.
fold_calls(f, entity_operations) ==
    IF Len(f.calls) < Len(f.matching_hosts)
    THEN <<invoke(f, f.matching_hosts[Len(f.calls) + 1], entity_operations)>>
    ELSE <<>>

\* Faulty variant: a fold that has called no host is ready with a new, empty
\* list.
fold_fresh(f, entity_operations) ==
    IF fold_calls(f, entity_operations) # <<>>
    THEN [f EXCEPT !.calls = @ \o fold_calls(f, entity_operations)]
    ELSE [f EXCEPT !.outcome = Ok(IF f.calls = <<>> THEN <<>> ELSE entity_operations)]

\* stream::iter_ok(matching_hosts).fold(entity_operations, ..) polled with the
\* accumulator in hand: it calls the next host, or is ready with the
\* accumulator once the stream has ended.
fold(f, entity_operations) ==
    IF fold_calls(f, entity_operations) # <<>>
    THEN [f EXCEPT !.calls = @ \o fold_calls(f, entity_operations)]
    ELSE [f EXCEPT !.outcome = Ok(entity_operations)]

\* future::result(transaction).and_then(..) on its first poll.
and_then(f) ==
    IF is_err(f.transaction)
    THEN [f EXCEPT !.outcome = Err(unwrap_err(f.transaction))]
    ELSE fold(f, f.input)

Created(d) ==
    /\ d \in DOMAIN disp
    /\ disp[d].outcome = Pending
    /\ disp[d].calls = <<>>

Poll(d) ==
    /\ Created(d)
    /\ disp' = [disp EXCEPT ![d] = and_then(@)]
    /\ UNCHANGED <<manifest, buildCalls, buildResults, result, interest, steps, matched>>

\* What a host's processing operation may answer to a call: the list with one
\* more operation, or an error; the answer given before if asked before.
HostResults(call) ==
    IF call \in DOMAIN steps THEN {steps[call]}
    ELSE {Ok(Append(call.entity_operations, o)) : o \in Ops}
         \cup {Err(Error(<<e>>)) : e \in HostErrors}

\* Faulty variant: a failed step is skipped and the chain goes on with the
\* list the failed host was given.
fold_resolved_swallow(f, res) ==
    fold([f EXCEPT !.returns = Append(@, res)],
         IF is_err(res) THEN f.calls[Len(f.returns) + 1].entity_operations
         ELSE unwrap(res))

\* Faulty variant: after a host has returned its list the fold does not go on
\* to the next host.
fold_resolved_stall(f, res) ==
    IF is_err(res)
    THEN [f EXCEPT !.returns = Append(@, res), !.outcome = res]
    ELSE IF Len(f.calls) < Len(f.matching_hosts)
    THEN [f EXCEPT !.returns = Append(@, res)]
    ELSE [f EXCEPT !.returns = Append(@, res), !.outcome = res]

\* The fold once the future of its current host has resolved with res.
fold_resolved(f, res) ==
    IF is_err(res)
    THEN [f EXCEPT !.returns = Append(@, res), !.outcome = res]
    ELSE fold([f EXCEPT !.returns = Append(@, res)], unwrap(res))

Running(d) ==
    /\ d \in DOMAIN disp
    /\ disp[d].outcome = Pending
    /\ Len(disp[d].returns) < Len(disp[d].calls)

Resolve(d) ==
    /\ Running(d)
    /\ LET call == disp[d].calls[Len(disp[d].returns) + 1] IN
       \E res \in HostResults(call) :
          /\ steps' = (call :> res) @@ steps
          /\ disp' = [disp EXCEPT ![d] = fold_resolved(@, res)]
    /\ UNCHANGED <<manifest, buildCalls, buildResults, result, interest, matched>>

----------------------------------------------------------------------------
Empty == [x \in {} |-> TRUE]

Init ==
    /\ manifest \in Manifests
    /\ buildCalls = <<>>
    /\ buildResults = <<>>
    /\ result = Pending
    /\ interest = Empty
    /\ steps = Empty
    /\ matched = {}
    /\ disp = Empty

Next ==
    \/ FromManifest
    \/ MatchesLog
    \/ ProcessTrigger("d1")
    \/ Poll("d1")
    \/ Resolve("d1")

Spec == Init /\ [][Next]_vars

\* One dispatch on an instance, its future driven by its executor, every step
\* a host has started resolving in the end.
NextLive ==
    \/ FromManifest
    \/ ProcessTrigger("d1")
    \/ Poll("d1")
    \/ Resolve("d1")

SpecLive ==
    /\ Init
    /\ [][NextLive]_vars
    /\ WF_vars(Poll("d1"))
    /\ WF_vars(Resolve("d1"))

\* The answer of a host's predicate for the trigger of the dispatch changes
\* while a host is at work on it.
InterestChange ==
    /\ Running("d1")
    /\ \E h \in Range(Hosts) :
          LET k == PredKey(h, disp["d1"].trigger, disp["d1"].block) IN
          interest' = [interest EXCEPT ![k] = ~@]
    /\ UNCHANGED <<manifest, buildCalls, buildResults, result, steps, matched, disp>>

\* One dispatch on an instance whose hosts change their interest under it.
NextDyn ==
    \/ NextLive
    \/ InterestChange

SpecDyn == Init /\ [][NextDyn]_vars

\* Two dispatches on one instance: the trigger of the first is dispatched
\* again with the same block and any input list, at any time after the first
\* call, and the polls of the two futures interleave in any order. Manifests
\* of at most two data sources, in ascending order.
PairManifests == {[i \in 1..n |-> i] : n \in 0..2}

InitPair ==
    /\ Init
    /\ manifest \in PairManifests

Replay ==
    /\ "d1" \in DOMAIN disp
    /\ \E entity_operations \in InputLists :
          Dispatch("d2", disp["d1"].block, disp["d1"].trigger, entity_operations)

NextPair ==
    \/ Next
    \/ Replay
    \/ Poll("d2")
    \/ Resolve("d2")

SpecPair == InitPair /\ [][NextPair]_vars

----------------------------------------------------------------------------
\* Vocabulary of the properties

\* Position of host h in the instance.
Pos(h) == CHOOSE i \in DOMAIN Hosts : Hosts[i] = h

\* The hosts whose predicate answered true for the trigger of dispatch f.
Interested(f) == {h \in Range(f.asked) : f.answers[h]}

Done(f) == f.outcome # Pending

\* The lookup of the transaction of a Log or Call trigger finds nothing.
NoTransaction(f) ==
    /\ f.trigger.kind \in {"Log", "Call"}
    /\ f.block[f.trigger.payload] = None

\* Every step of dispatch f has succeeded: the lookup and the step of every
\* interested host.
AllSucceeded(f) ==
    /\ ~NoTransaction(f)
    /\ Len(f.returns) = Cardinality(Interested(f))
    /\ \A a \in DOMAIN f.returns : is_ok(f.returns[a])

\* The hosts called so far are the first interested hosts by position, each
\* called after the ones before it.
CalledInManifestOrder(f) ==
    /\ \A a, b \in DOMAIN f.calls :
          a < b => Pos(f.calls[a].host) < Pos(f.calls[b].host)
    /\ \A a \in DOMAIN f.calls :
          /\ f.calls[a].host \in Interested(f)
          /\ f.calls[a].op = process_op(f.trigger)
          /\ \A h \in Interested(f) :
                Pos(h) < Pos(f.calls[a].host)
                    => \E b \in 1..(a - 1) : f.calls[b].host = h

\* The first host is given the input of the dispatch, every other host the
\* list the host before it returned.
Threaded(f) ==
    \A a \in DOMAIN f.calls :
        IF a = 1 THEN f.calls[a].entity_operations = f.input
        ELSE /\ a - 1 \in DOMAIN f.returns
             /\ is_ok(f.returns[a - 1])
             /\ f.calls[a].entity_operations = unwrap(f.returns[a - 1])

\* C1: when every step of a dispatch succeeds, the interested hosts are
\* called in manifest order, the first with the input list of the dispatch,
\* each next one with exactly the list the one before returned, and the
\* dispatch yields exactly the list the last one returned.
C1_ManifestOrderThreading ==
    \A d \in DOMAIN disp :
        LET f == disp[d] IN
        /\ CalledInManifestOrder(f)
        /\ Threaded(f)
        /\ (AllSucceeded(f) /\ f.returns # <<>>
                => f.outcome = Ok(unwrap(f.returns[Len(f.returns)])))
        /\ (is_ok(f.outcome)
                => {f.calls[a].host : a \in DOMAIN f.calls} = Interested(f))

\* Hosts 1 and 3 of three match a log, host 2 does not; from the empty list
\* the dispatch yields [opA, opB].
C1_Witness ==
    \E d \in DOMAIN disp :
        LET f == disp[d] IN
        /\ Len(Hosts) = 3
        /\ Interested(f) = {Hosts[1], Hosts[3]}
        /\ f.input = <<>>
        /\ Len(f.calls) = 2
        /\ f.calls[2].entity_operations = <<"opA">>
        /\ f.outcome = Ok(<<"opA", "opB">>)

\* C2: only hosts whose predicate answered true for the trigger are called,
\* and none of them twice in a dispatch.
C2_OnlyInterestedOnce ==
    \A d \in DOMAIN disp :
        LET f == disp[d] IN
        /\ \A a \in DOMAIN f.calls :
              /\ f.calls[a].host \in Range(Hosts)
              /\ f.answers[f.calls[a].host]
        /\ \A a, b \in DOMAIN f.calls :
              f.calls[a].host = f.calls[b].host => a = b

C2_Witness ==
    \E d \in DOMAIN disp :
        LET f == disp[d] IN
        /\ Done(f)
        /\ Len(f.calls) = 2
        /\ \E h \in Range(Hosts) :
              /\ ~f.answers[h]
              /\ \A a \in DOMAIN f.calls : f.calls[a].host # h

\* C3: when the step of a host fails with E, the dispatch fails with exactly
\* E and yields no list, the failed host is not called again and no host
\* after it is called.
C3_FailureStopsChain ==
    \A d \in DOMAIN disp :
        LET f == disp[d] IN
        \A a \in DOMAIN f.returns :
            is_err(f.returns[a])
                => /\ f.outcome = Err(unwrap_err(f.returns[a]))
                   /\ Len(f.calls) = a
                   /\ Len(f.returns) = a
                   /\ \A b \in DOMAIN f.calls :
                         f.calls[b].host = f.calls[a].host => b = a

\* The first of two interested hosts fails; the second is never called.
C3_Witness ==
    \E d \in DOMAIN disp :
        LET f == disp[d] IN
        /\ Cardinality(Interested(f)) >= 2
        /\ Len(f.returns) = 1
        /\ is_err(f.returns[1])
        /\ f.outcome = Err(Error(<<"E1">>))

\* C4: when the transaction of a Log or Call trigger is not found in the
\* block, the dispatch fails with the lookup error and no host is called.
C4_NoTransactionNoHost ==
    \A d \in DOMAIN disp :
        LET f == disp[d] IN
        NoTransaction(f)
            => /\ f.calls = <<>>
               /\ f.returns = <<>>
               /\ Done(f) =>
                     /\ is_err(f.outcome)
                     /\ unwrap_err(f.outcome) \in
                            {Error(<<"Found no transaction for log">>),
                             Error(<<"Found no transaction for call">>)}

C4_Witness ==
    \E d \in DOMAIN disp :
        LET f == disp[d] IN
        /\ NoTransaction(f)
        /\ Cardinality(Interested(f)) >= 2
        /\ is_err(f.outcome)

\* C5: when every build succeeds, from_manifest returns an instance with one
\* host per data source, the host at position j being the one built from the
\* j-th data source.
C5_HostsInManifestOrder ==
    (result # Pending /\ \A j \in DOMAIN buildResults : is_ok(buildResults[j]))
        => /\ is_ok(result)
           /\ Len(Hosts) = Len(manifest)
           /\ \A j \in DOMAIN manifest :
                 /\ Hosts[j] = unwrap(buildResults[j])
                 /\ Hosts[j].ds = manifest[j]
                 /\ Hosts[j].build = j

C5_Witness ==
    /\ is_ok(result)
    /\ Len(Hosts) = 3
    /\ manifest[1] > manifest[2]

\* C6: when the build of a data source fails, from_manifest returns an error
\* and no instance; an instance never holds fewer hosts than the manifest has
\* data sources.
C6_AllOrNothing ==
    /\ (result # Pending /\ \E j \in DOMAIN buildResults : is_err(buildResults[j]))
          => /\ is_err(result)
             /\ Hosts = <<>>
             /\ disp = Empty /\ matched = {}
    /\ is_ok(result) => Len(Hosts) = Len(manifest)

C6_Witness ==
    /\ is_err(result)
    /\ \E i, j \in DOMAIN buildResults :
          is_ok(buildResults[i]) /\ is_err(buildResults[j])

\* The position in the manifest of the m-th failed build.
FailedAt(m) ==
    CHOOSE j \in DOMAIN buildResults :
        /\ is_err(buildResults[j])
        /\ Cardinality({i \in 1..j : is_err(buildResults[i])}) = m

NumFailed == Cardinality({j \in DOMAIN buildResults : is_err(buildResults[j])})

\* C7: the message of the construction error is the heading followed by the
\* description of every failed build, once each, in manifest order, separated
\* by ", ", and by nothing else.
C7_AggregatedMessage ==
    is_err(result)
        => LET msg == to_string(unwrap_err(result)) IN
           /\ NumFailed >= 1
           /\ Len(msg) = 2 * NumFailed
           /\ msg[1] = "Errors loading data sources: "
           /\ \A m \in 1..NumFailed :
                 /\ <<msg[2 * m]>> = to_string(unwrap_err(buildResults[FailedAt(m)]))
                 /\ m > 1 => msg[2 * m - 1] = ", "

\* The first and the third build fail, with different descriptions; the
\* second succeeds.
C7_Witness ==
    /\ is_err(result)
    /\ Len(buildResults) = 3
    /\ is_err(buildResults[1]) /\ is_ok(buildResults[2]) /\ is_err(buildResults[3])
    /\ buildResults[1] # buildResults[3]

C9_OneStepAtATime ==
    \A d \in DOMAIN disp :
        LET f == disp[d] IN
        /\ Len(f.calls) <= Len(f.returns) + 1
        /\ \A a \in DOMAIN f.calls :
              \A b \in 1..(a - 1) : b \in DOMAIN f.returns /\ is_ok(f.returns[b])

\* The second interested host is at work, the first has returned.
C9_Witness ==
    \E d \in DOMAIN disp :
        LET f == disp[d] IN
        /\ Len(f.calls) = 2
        /\ Len(f.returns) = 1
        /\ Cardinality(Interested(f)) = 3
        /\ f.outcome = Pending

\* s is a prefix of t, or t of s.
Comparable(s, t) ==
    \A a \in DOMAIN s \cap DOMAIN t : s[a] = t[a]

SameInputs(f, g) ==
    /\ f.trigger = g.trigger
    /\ f.block = g.block
    /\ f.input = g.input

\* C10: two dispatches on the same instance with the same block, trigger and
\* input list, the hosts answering the same to the same question, call the
\* same hosts in the same order with the same lists and end with the same
\* outcome.
C10_Deterministic ==
    \A d, e \in DOMAIN disp :
        LET f == disp[d]
            g == disp[e]
        IN  SameInputs(f, g)
                => /\ Comparable(f.calls, g.calls)
                   /\ Comparable(f.returns, g.returns)
                   /\ (Done(f) /\ Done(g)
                          => /\ f.calls = g.calls
                             /\ f.outcome = g.outcome)

\* Both runs have gone through the two hosts and ended with the same list.
C10_Witness ==
    /\ DOMAIN disp = {"d1", "d2"}
    /\ SameInputs(disp["d1"], disp["d2"])
    /\ Len(disp["d1"].calls) = 2
    /\ is_ok(disp["d1"].outcome)
    /\ disp["d2"].outcome = disp["d1"].outcome

\* C11: once from_manifest has returned, no call of matches_log or
\* process_trigger and no step of a dispatch, failing or not, changes the
\* hosts of the instance or their order.
C11_HostsNeverChange == [][result # Pending => result' = result]_vars

\* matches_log has been called and a dispatch over two of the three hosts has
\* failed; the instance still holds the three hosts it was built with.
C11_Witness ==
    /\ Len(Hosts) = 3
    /\ matched # {}
    /\ \E d \in DOMAIN disp :
          /\ is_err(disp[d].outcome)
          /\ Len(disp[d].calls) = 2
    /\ \A j \in DOMAIN Hosts : Hosts[j] = unwrap(buildResults[j])

\* C12: from_manifest calls the builder once for every data source, in
\* manifest order, also after a build has failed, and decides only with the
\* result of every build in hand.
C12_EveryBuildInOrder ==
    result # Pending
        => /\ buildCalls = manifest
           /\ Len(buildResults) = Len(manifest)
           /\ \A j \in DOMAIN buildResults :
                 is_ok(buildResults[j]) => unwrap(buildResults[j]).ds = manifest[j]

\* The first build fails; the second and third are made all the same.
C12_Witness ==
    /\ is_err(result)
    /\ Len(manifest) = 3
    /\ is_err(buildResults[1])
    /\ Len(buildCalls) = 3
    /\ is_ok(buildResults[3])

\* C13, as stated: in a dispatch of a Log trigger whose transaction is not
\* found, matches_log is called on no host.
C13_NoPredicateEvaluated ==
    \A d \in DOMAIN disp :
        LET f == disp[d] IN
        (f.trigger.kind = "Log" /\ NoTransaction(f)) => f.asked = <<>>

\* C13, amended: in a dispatch of a Log trigger whose transaction is not
\* found, process_trigger has called matches_log on every host of the
\* instance, once each in manifest order, before its future is polled; the
\* future fails with the lookup error and process_log is called on no host.
C13_PredicatesEvaluatedEagerly ==
    \A d \in DOMAIN disp :
        LET f == disp[d] IN
        (f.trigger.kind = "Log" /\ NoTransaction(f))
            => /\ f.asked = Hosts
               /\ f.matching_hosts = SelectSeq(Hosts, LAMBDA h : f.answers[h])
               /\ f.calls = <<>>
               /\ f.outcome \in {Pending, Err(Error(<<"Found no transaction for log">>))}

\* Three hosts have been asked, two are interested, and the dispatch has
\* failed on the lookup.
C13_Witness ==
    \E d \in DOMAIN disp :
        LET f == disp[d] IN
        /\ f.trigger.kind = "Log"
        /\ NoTransaction(f)
        /\ Len(f.asked) = 3
        /\ Len(f.matching_hosts) = 2
        /\ is_err(f.outcome)

\* The block of dispatch f resolves no transaction at all.
ResolvesNothing(f) == \A p \in DOMAIN f.block : f.block[p] = None

\* C14: a dispatch of a Block trigger looks up no transaction and never fails
\* with a lookup error: it fails exactly when the step of a matching host
\* fails, also when the block resolves no transaction.
C14_BlockNeedsNoTransaction ==
    \A d \in DOMAIN disp :
        LET f == disp[d] IN
        f.trigger.kind = "Block"
            => /\ f.transaction = Ok(None)
               /\ Done(f) =>
                     /\ is_err(f.outcome) <=>
                            \E a \in DOMAIN f.returns : is_err(f.returns[a])
                     /\ is_err(f.outcome) =>
                            \E a \in DOMAIN f.returns : f.outcome = f.returns[a]

\* A Block trigger goes through two hosts in a block that resolves nothing.
C14_Witness ==
    \E d \in DOMAIN disp :
        LET f == disp[d] IN
        /\ f.trigger.kind = "Block"
        /\ ResolvesNothing(f)
        /\ Len(f.calls) = 2
        /\ is_ok(f.outcome)

C17_NoMatchReturnsInput ==
    \A d \in DOMAIN disp :
        LET f == disp[d] IN
        Interested(f) = {}
            => /\ f.calls = <<>>
               /\ Done(f) =>
                     IF NoTransaction(f) THEN is_err(f.outcome)
                     ELSE f.outcome = Ok(f.input)

\* None of three hosts is interested; the list [opA] comes back.
C17_Witness ==
    \E d \in DOMAIN disp :
        LET f == disp[d] IN
        /\ Len(Hosts) = 3
        /\ Interested(f) = {}
        /\ f.outcome = Ok(<<"opA">>)

\* A step of the system in which the host at work in dispatch d has not
\* returned leaves the dispatch without outcome and calls no further host.
WaitsForStep(d) ==
    (Running(d) /\ disp'[d].returns = disp[d].returns)
        => /\ disp'[d].outcome = Pending
           /\ disp'[d].calls = disp[d].calls

\* C16: a dispatch whose future is polled and whose host steps all resolve
\* ends with a list or an error; as long as the step of a host has not
\* resolved, however long that takes, the dispatch has no outcome and calls no
\* other host.
C16_NoTimeout ==
    /\ ("d1" \in DOMAIN disp) ~> ("d1" \in DOMAIN disp /\ Done(disp["d1"]))
    /\ [][\A d \in DOMAIN disp : WaitsForStep(d)]_vars

\* The dispatch has ended once the third host returned.
C16_Witness ==
    /\ "d1" \in DOMAIN disp
    /\ Len(disp["d1"].returns) = 3
    /\ is_ok(disp["d1"].outcome)

\* What the predicate of host h answers now to the trigger of dispatch f.
InterestedNow(f, h) == interest[PredKey(h, f.trigger, f.block)]

\* C18: the hosts a dispatch goes through are settled when process_trigger is
\* called: every host has then been asked once, before any processing
\* operation is called, and the hosts called are the ones that answered true
\* then, whatever their predicates answer while the steps run.
C18_MatchingFixedAtCall ==
    \A d \in DOMAIN disp :
        LET f == disp[d] IN
        /\ f.asked = Hosts
        /\ Range(f.matching_hosts) = Interested(f)
        /\ \A a \in DOMAIN f.calls : f.calls[a].host = f.matching_hosts[a]
        /\ is_ok(f.outcome) => Len(f.calls) = Len(f.matching_hosts)

\* Of three hosts the first and the third were interested at the call and
\* have been called; by now the second is interested and the third is not.
C18_Witness ==
    \E d \in DOMAIN disp :
        LET f == disp[d] IN
        /\ Len(Hosts) = 3
        /\ Interested(f) = {Hosts[1], Hosts[3]}
        /\ InterestedNow(f, Hosts[2])
        /\ ~InterestedNow(f, Hosts[3])
        /\ Len(f.calls) = 2
        /\ f.calls[2].host = Hosts[3]
        /\ is_ok(f.outcome)

\* What the hosts make of dispatch f on its own: the list handed from one
\* interested host to the next by position, each host answering as it has
\* answered to that call.
RECURSIVE Alone(_, _, _)
Alone(f, i, acc) ==
    IF i > Len(Hosts) THEN Ok(acc)
    ELSE IF ~f.answers[Hosts[i]] THEN Alone(f, i + 1, acc)
    ELSE LET call == [host |-> Hosts[i],
                      op |-> process_op(f.trigger),
                      block |-> f.block,
                      transaction |-> IF f.trigger.kind = "Block" THEN None
                                      ELSE f.block[f.trigger.payload],
                      payload |-> f.trigger.payload,
                      entity_operations |-> acc]
         IN  IF call \notin DOMAIN steps THEN [tag |-> "Unknown"]
             ELSE IF is_err(steps[call]) THEN steps[call]
             ELSE Alone(f, i + 1, unwrap(steps[call]))

AloneOutcome(f) ==
    IF NoTransaction(f)
    THEN Err(Error(<<IF f.trigger.kind = "Log" THEN "Found no transaction for log"
                     ELSE "Found no transaction for call">>))
    ELSE Alone(f, 1, f.input)

\* The list dispatch f yields is its input followed by what each of its own
\* hosts added.
OwnContributions(f) ==
    LET l == unwrap(f.outcome) IN
    /\ Len(l) = Len(f.input) + Len(f.calls)
    /\ SubSeq(l, 1, Len(f.input)) = f.input
    /\ \A a \in DOMAIN f.calls :
          l[Len(f.input) + a] = unwrap(f.returns[a])[Len(f.input) + a]

\* C19: of two dispatches on one instance whose host steps interleave, each
\* ends as it would alone, and the list it yields holds its own input and
\* what its own hosts added, nothing of the other dispatch.
C19_SeparateAccumulators ==
    \A d \in DOMAIN disp :
        LET f == disp[d] IN
        Done(f)
            => /\ f.outcome = AloneOutcome(f)
               /\ is_ok(f.outcome) => OwnContributions(f)

\* The second dispatch, started after the first with another input list, has
\* gone through both hosts while the second host of the first is at work.
C19_Witness ==
    /\ DOMAIN disp = {"d1", "d2"}
    /\ disp["d1"].input # disp["d2"].input
    /\ Len(disp["d1"].calls) = 2
    /\ Len(disp["d1"].returns) = 1
    /\ Len(disp["d2"].calls) = 2
    /\ is_ok(disp["d2"].outcome)

====
